---- MODULE Spec2Model ----
(***************************************************************************)
(* Model of the active (frontier) node of the tiered commitment tree,      *)
(* src/src/node/active.rs.  An Active<Focus> of height h >= 1 is a record  *)
(* [focus, siblings, hash]; its focus is an Active of height h-1, or, at   *)
(* height 0, the leaf focus [item].  Heights are type-level in the source  *)
(* (Focus::HEIGHT), so every operator takes the height as a parameter.     *)
(* The collaborators that are not part of active.rs (the hash primitive,   *)
(* Three, the complete node, the leaf focus) are modelled from their       *)
(* description in the specification.                                        *)
(***************************************************************************)
EXTENDS Integers, Sequences, FiniteSets, TLC

VARIABLES
    root,           \* the Active node of height HEIGHT held by the caller, or NoNode once consumed
    result,         \* what the last operation returned
    items,          \* history: the leaf items handed to the node, left to right, as last altered
    focusHEIGHT,    \* Focus::HEIGHT of a type composition under evaluation
    completeHEIGHT, \* <Focus as Active>::Complete::HEIGHT of that composition
    evaluated       \* the outcome of evaluating Active<Focus>::HEIGHT for it

vars == <<root, result, items, focusHEIGHT, completeHEIGHT, evaluated>>

-----------------------------------------------------------------------------
(* Bounds *)

\* at most this many pruned (bare hash) entries are held in the structure
MaxPruned == 1
\* at most this many leaves carry an altered (marked) item
MaxMarked == 1
\* the heights tried for a type composition are 0..MaxTypeHeight
MaxTypeHeight == 9

\* Height of the node type the caller holds: Active<Active<Leaf>>
HEIGHT == 2

-----------------------------------------------------------------------------
(* The hash primitive: an opaque value with a padding constant and an      *)
(* injective, height-separated combination of four hashes.                 *)

NoHash == <<"none">>
padding == <<"pad">>
ItemHash(item) == <<"item", item>>
node(height, a, b, c, d) == <<"node", height, a, b, c, d>>

Ok(v) == [tag |-> "Ok", val |-> v]
Err(v) == [tag |-> "Err", val |-> v]

NoNode == [none |-> TRUE]

RECURSIVE Pow4(_)
Pow4(n) == IF n = 0 THEN 1 ELSE 4 * Pow4(n - 1)

-----------------------------------------------------------------------------
(* Three: the sibling buffer, a sequence of at most three entries.         *)

Three_new == <<>>

\* push succeeds under capacity, else hands back the three entries plus the new one
push(siblings, entry) ==
    IF Len(siblings) < 3
    THEN Ok(Append(siblings, entry))
    ELSE Err(Append(siblings, entry))

-----------------------------------------------------------------------------
(* The complete (frozen) node: [children, hash], children four entries,    *)
(* each Ok(complete child) or Err(hash).  A complete leaf is [item].       *)

RECURSIVE complete_hash(_, _)
RECURSIVE entry_hash(_, _)

\* hash of a complete node of height h: the cached hash when set, else the
\* combination of its children's hashes
complete_hash(h, c) ==
    IF h = 0 THEN ItemHash(c.item)
    ELSE IF c.hash # NoHash THEN c.hash
    ELSE node(h, entry_hash(h - 1, c.children[1]), entry_hash(h - 1, c.children[2]),
                 entry_hash(h - 1, c.children[3]), entry_hash(h - 1, c.children[4]))

entry_hash_pad(h, e) ==
    IF e.tag = "Ok" THEN complete_hash(h, e.val) ELSE padding

\* the closure of hashes_of_all: the hash of one Result<T, Hash>, T of height h
entry_hash(h, e) ==
    IF e.tag = "Ok" THEN complete_hash(h, e.val) ELSE e.val

hashes_of_all(h, full) == [i \in 1..Len(full) |-> entry_hash(h, full[i])]

set_hash_unchecked(c, hash) == [c EXCEPT !.hash = hash]

\* the frozen-node layer folds four children into a node it retains, or into
\* the bare hash of that node
from_children_or_else_hash(h, children, retain) ==
    IF retain
    THEN Ok([children |-> children, hash |-> NoHash])
    ELSE LET hs == hashes_of_all(h - 1, children)
         IN  Err(node(h, hs[1], hs[2], hs[3], hs[4]))

\* a frozen node only when all four children are present, else the combined
\* hash with padding in the missing places
from_siblings_and_focus_or_else_hash(h, siblings, focus, retain) ==
    LET p == push(siblings, focus)
    IN  IF p.tag = "Err" /\ focus.tag = "Ok"
        THEN from_children_or_else_hash(h, p.val, retain)
        ELSE LET hs == hashes_of_all(h - 1, p.val)
                 at(i) == IF i <= Len(hs) THEN hs[i] ELSE padding
             IN  Err(node(h, at(1), at(2), at(3), at(4)))

-----------------------------------------------------------------------------
(* The leaf focus, height 0: holds exactly one item, never accepts another *)

leaf_singleton(item) == [item |-> item]
leaf_hash(leaf) == ItemHash(leaf.item)
leaf_complete(leaf, retain) ==
    IF retain THEN Ok([item |-> leaf.item]) ELSE Err(ItemHash(leaf.item))
leaf_insert(leaf, item, retain) ==
    [tag |-> "Err", item |-> item, carry |-> leaf_complete(leaf, retain)]

\* mutators handed to alter: a read-only probe, and one that marks the item
Mutators == {"probe", "mark"}
Marked(item) == IF item > 0 THEN -item ELSE item
Mutate(f, item) == IF f = "mark" THEN Marked(item) ELSE item
MutatorResult(f, item) == item

Some(v) == [tag |-> "Some", val |-> v]
None == [tag |-> "None"]

\* alter at the base case: f is applied to the item and its result returned,
\* or, when the base case has no active item to hand out, nothing changes
\* and None is returned
leaf_altered(leaf, f, some) ==
    IF some THEN [leaf EXCEPT !.item = Mutate(f, leaf.item)] ELSE leaf
leaf_alter(leaf, f, some) ==
    IF some THEN Some(MutatorResult(f, leaf.item)) ELSE None

-----------------------------------------------------------------------------
(* Active<Focus>                                                            *)

from_parts(siblings, focus) ==
    [focus |-> focus, siblings |-> siblings, hash |-> NoHash]

RECURSIVE hash(_, _)

\* Focus::hash for a focus of height fh
focus_hash(fh, focus) ==
    IF fh = 0 THEN leaf_hash(focus) ELSE hash(fh, focus)

hash_active_swapped(fh, siblings, focus) ==
    LET hs == hashes_of_all(fh, siblings)
        f == focus_hash(fh, focus)
    IN  CASE Len(siblings) = 0 -> node(fh + 1, f, padding, padding, padding)
          [] Len(siblings) = 1 -> node(fh + 1, f, hs[1], padding, padding)
          [] Len(siblings) = 2 -> node(fh + 1, hs[1], hs[2], f, padding)
          [] Len(siblings) = 3 -> node(fh + 1, hs[1], hs[2], hs[3], f)

\* hash_active for a focus of height fh (Focus::HEIGHT)
hash_active(fh, siblings, focus) ==
    LET hs == hashes_of_all(fh, siblings)
        f == focus_hash(fh, focus)
    IN  CASE Len(siblings) = 0 -> node(fh + 1, f, padding, padding, padding)
          [] Len(siblings) = 1 -> node(fh + 1, hs[1], f, padding, padding)
          [] Len(siblings) = 2 -> node(fh + 1, hs[1], hs[2], f, padding)
          [] Len(siblings) = 3 -> node(fh + 1, hs[1], hs[2], hs[3], f)

\* the value GetHash::hash returns for an Active of height h
hash(h, self) ==
    IF self.hash # NoHash
    THEN self.hash
    ELSE hash_active(h - 1, self.siblings, self.focus)

RECURSIVE hashed(_, _)

hashed_focus_cached(h, self) ==
    IF h = 0 \/ self.hash # NoHash
    THEN self
    ELSE [self EXCEPT !.focus = hashed(h - 1, self.focus),
                      !.hash = focus_hash(h - 1, self.focus)]

\* the node after GetHash::hash: the cache is set here and, when the hash was
\* computed, along the focus path below
hashed(h, self) ==
    IF h = 0 \/ self.hash # NoHash
    THEN self
    ELSE [self EXCEPT !.focus = hashed(h - 1, self.focus),
                      !.hash = hash_active(h - 1, self.siblings, self.focus)]

RECURSIVE singleton(_, _)
singleton(h, item) ==
    IF h = 0 THEN leaf_singleton(item)
    ELSE from_parts(Three_new, singleton(h - 1, item))

RECURSIVE complete(_, _, _)
complete_without_siblings(h, self, retain) ==
    IF h = 0 THEN leaf_complete(self, retain[0])
    ELSE from_siblings_and_focus_or_else_hash(
             h, Three_new, complete(h - 1, self.focus, retain), retain[h])

\* retain[l] is the frozen layer's choice for the node of height l
complete(h, self, retain) ==
    IF h = 0 THEN leaf_complete(self, retain[0])
    ELSE from_siblings_and_focus_or_else_hash(
             h, self.siblings, complete(h - 1, self.focus, retain), retain[h])

RECURSIVE altered_keep_cache(_, _, _, _)
altered_keep_cache(h, self, f, some) ==
    IF h = 0 THEN leaf_altered(self, f, some)
    ELSE [self EXCEPT !.focus = altered_keep_cache(h - 1, self.focus, f, some)]

RECURSIVE altered(_, _, _, _)

altered_cleared_on_some(h, self, f, some) ==
    IF h = 0 THEN leaf_altered(self, f, some)
    ELSE [self EXCEPT !.focus = altered(h - 1, self.focus, f, some),
                      !.hash = IF some THEN NoHash ELSE @]

\* the node after alter(f); some: whether the base case has an active item
altered(h, self, f, some) ==
    IF h = 0 THEN leaf_altered(self, f, some)
    ELSE [self EXCEPT !.focus = altered(h - 1, self.focus, f, some),
                      !.hash = NoHash]

alter_none(h, self, f, some) == None

RECURSIVE alter(_, _, _, _)
\* the value alter(f) returns: what the focus's alter returns
alter(h, self, f, some) ==
    IF h = 0 THEN leaf_alter(self, f, some)
    ELSE alter(h - 1, self.focus, f, some)

RECURSIVE insert(_, _, _, _)

insert_sibling_dropped(h, self, item, retain) ==
    IF h = 0 THEN leaf_insert(self, item, retain[0])
    ELSE LET r == insert(h - 1, self.focus, item, retain)
         IN  IF r.tag = "Ok"
             THEN Ok(from_parts(self.siblings, r.val))
             ELSE LET p == push(self.siblings, r.carry)
                  IN  IF p.tag = "Ok"
                      THEN Ok(from_parts(self.siblings, singleton(h - 1, r.item)))
                      ELSE LET folded == from_children_or_else_hash(h, p.val, retain[h])
                           IN  [tag |-> "Err",
                                item |-> r.item,
                                carry |-> IF folded.tag = "Ok" /\ self.hash # NoHash
                                          THEN Ok(set_hash_unchecked(folded.val, self.hash))
                                          ELSE folded]

insert_focus_first(h, self, item, retain) ==
    IF h = 0 THEN leaf_insert(self, item, retain[0])
    ELSE LET r == insert(h - 1, self.focus, item, retain)
         IN  IF r.tag = "Ok"
             THEN Ok(from_parts(self.siblings, r.val))
             ELSE LET p == IF Len(self.siblings) < 3 THEN push(self.siblings, r.carry)
                           ELSE Err(<<r.carry>> \o self.siblings)
                  IN  IF p.tag = "Ok"
                      THEN Ok(from_parts(p.val, singleton(h - 1, r.item)))
                      ELSE LET folded == from_children_or_else_hash(h, p.val, retain[h])
                           IN  [tag |-> "Err",
                                item |-> r.item,
                                carry |-> IF folded.tag = "Ok" /\ self.hash # NoHash
                                          THEN Ok(set_hash_unchecked(folded.val, self.hash))
                                          ELSE folded]

insert_cache_kept(h, self, item, retain) ==
    IF h = 0 THEN leaf_insert(self, item, retain[0])
    ELSE LET r == insert(h - 1, self.focus, item, retain)
         IN  IF r.tag = "Ok"
             THEN Ok([self EXCEPT !.focus = r.val])
             ELSE LET p == push(self.siblings, r.carry)
                  IN  IF p.tag = "Ok"
                      THEN Ok(from_parts(p.val, singleton(h - 1, r.item)))
                      ELSE LET folded == from_children_or_else_hash(h, p.val, retain[h])
                           IN  [tag |-> "Err",
                                item |-> r.item,
                                carry |-> IF folded.tag = "Ok" /\ self.hash # NoHash
                                          THEN Ok(set_hash_unchecked(folded.val, self.hash))
                                          ELSE folded]

insert_focus_hash_transplanted(h, self, item, retain) ==
    IF h = 0 THEN leaf_insert(self, item, retain[0])
    ELSE LET r == insert(h - 1, self.focus, item, retain)
         IN  IF r.tag = "Ok"
             THEN Ok(from_parts(self.siblings, r.val))
             ELSE LET p == push(self.siblings, r.carry)
                  IN  IF p.tag = "Ok"
                      THEN Ok(from_parts(p.val, singleton(h - 1, r.item)))
                      ELSE LET folded == from_children_or_else_hash(h, p.val, retain[h])
                           IN  [tag |-> "Err",
                                item |-> r.item,
                                carry |-> IF folded.tag = "Ok" /\ self.hash # NoHash
                                          THEN Ok(set_hash_unchecked(folded.val, focus_hash(h - 1, self.focus)))
                                          ELSE folded]

insert_push_unchecked(h, self, item, retain) ==
    IF h = 0 THEN leaf_insert(self, item, retain[0])
    ELSE LET r == insert(h - 1, self.focus, item, retain)
         IN  IF r.tag = "Ok"
             THEN Ok(from_parts(self.siblings, r.val))
             ELSE LET p == Ok(Append(self.siblings, r.carry))
                  IN  IF p.tag = "Ok"
                      THEN Ok(from_parts(p.val, singleton(h - 1, r.item)))
                      ELSE LET folded == from_children_or_else_hash(h, p.val, retain[h])
                           IN  [tag |-> "Err",
                                item |-> r.item,
                                carry |-> IF folded.tag = "Ok" /\ self.hash # NoHash
                                          THEN Ok(set_hash_unchecked(folded.val, self.hash))
                                          ELSE folded]

insert_siblings_cleared(h, self, item, retain) ==
    IF h = 0 THEN leaf_insert(self, item, retain[0])
    ELSE LET r == insert(h - 1, self.focus, item, retain)
         IN  IF r.tag = "Ok"
             THEN Ok(from_parts(Three_new, r.val))
             ELSE LET p == push(self.siblings, r.carry)
                  IN  IF p.tag = "Ok"
                      THEN Ok(from_parts(p.val, singleton(h - 1, r.item)))
                      ELSE LET folded == from_children_or_else_hash(h, p.val, retain[h])
                           IN  [tag |-> "Err",
                                item |-> r.item,
                                carry |-> IF folded.tag = "Ok" /\ self.hash # NoHash
                                          THEN Ok(set_hash_unchecked(folded.val, self.hash))
                                          ELSE folded]

insert_pushed_cache_kept(h, self, item, retain) ==
    IF h = 0 THEN leaf_insert(self, item, retain[0])
    ELSE LET r == insert(h - 1, self.focus, item, retain)
         IN  IF r.tag = "Ok"
             THEN Ok(from_parts(self.siblings, r.val))
             ELSE LET p == push(self.siblings, r.carry)
                  IN  IF p.tag = "Ok"
                      THEN Ok([self EXCEPT !.siblings = p.val,
                                            !.focus = singleton(h - 1, r.item)])
                      ELSE LET folded == from_children_or_else_hash(h, p.val, retain[h])
                           IN  [tag |-> "Err",
                                item |-> r.item,
                                carry |-> IF folded.tag = "Ok" /\ self.hash # NoHash
                                          THEN Ok(set_hash_unchecked(folded.val, self.hash))
                                          ELSE folded]

\* Active::insert on a node of height h; retain[l] as for complete
insert(h, self, item, retain) ==
    IF h = 0 THEN leaf_insert(self, item, retain[0])
    ELSE LET r == insert(h - 1, self.focus, item, retain)
         IN  IF r.tag = "Ok"
             THEN Ok(from_parts(self.siblings, r.val))
             ELSE LET p == push(self.siblings, r.carry)
                  IN  IF p.tag = "Ok"
                      THEN Ok(from_parts(p.val, singleton(h - 1, r.item)))
                      ELSE LET folded == from_children_or_else_hash(h, p.val, retain[h])
                           IN  [tag |-> "Err",
                                item |-> r.item,
                                carry |-> IF folded.tag = "Ok" /\ self.hash # NoHash
                                          THEN Ok(set_hash_unchecked(folded.val, self.hash))
                                          ELSE folded]

Value(n) == [tag |-> "value", val |-> n]
Panic == [tag |-> "panic"]
Pending == [tag |-> "pending"]

Active_HEIGHT_unchecked(focusH, completeH) == Value(focusH + 1)

\* Active<Focus>::HEIGHT, a constant evaluated when the type is composed: the
\* evaluation yields a value or aborts
Active_HEIGHT(focusH, completeH) ==
    IF focusH = completeH THEN Value(focusH + 1) ELSE Panic

-----------------------------------------------------------------------------
(* The caller: holds one node, feeds it items, and plays the frozen-node   *)
(* layer's retain-or-prune choice at each height.                           *)

Retains == [0..HEIGHT -> BOOLEAN]

RECURSIVE Path(_)
\* the active node of height h on the focus path of root
Path(h) == IF h = HEIGHT THEN root ELSE Path(h + 1).focus

Levels == 1..HEIGHT

\* the frozen layer is asked to fold a node of height l only when the node
\* and every node below it on the focus path has 3 siblings; a leaf always
\* is.  A choice for a height that is not asked changes nothing, so only
\* the choices that retain there are enumerated.
Asked(l) == root # NoNode /\ \A j \in 1..l : Len(Path(j).siblings) = 3
Choices == {retain \in Retains : \A l \in 0..HEIGHT : ~Asked(l) => retain[l]}

RECURSIVE CountErrComplete(_, _)
RECURSIVE CountErrEntry(_, _)
CountErrEntry(h, e) ==
    IF e.tag = "Err" THEN 1 ELSE CountErrComplete(h, e.val)
CountErrComplete(h, c) ==
    IF h = 0 THEN 0
    ELSE CountErrEntry(h - 1, c.children[1]) + CountErrEntry(h - 1, c.children[2])
       + CountErrEntry(h - 1, c.children[3]) + CountErrEntry(h - 1, c.children[4])

RECURSIVE SumErr(_, _)
SumErr(h, es) ==
    IF es = <<>> THEN 0 ELSE CountErrEntry(h, Head(es)) + SumErr(h, Tail(es))

RECURSIVE CountErr(_, _)
\* pruned entries held by an active node of height h
CountErr(h, self) ==
    IF h = 0 THEN 0
    ELSE SumErr(h - 1, self.siblings) + CountErr(h - 1, self.focus)

CountMarked(s) == Cardinality({i \in 1..Len(s) : s[i] < 0})

\* the k-th item handed in is k, or k already marked
ItemsAt(k) == {k, -k}

Init ==
    /\ \E item \in ItemsAt(1) :
         /\ CountMarked(<<item>>) <= MaxMarked
         /\ root = singleton(HEIGHT, item)
         /\ items = <<item>>
    /\ result = [op |-> "singleton"]
    /\ focusHEIGHT = HEIGHT - 1
    /\ completeHEIGHT = HEIGHT - 1
    /\ evaluated = Active_HEIGHT(HEIGHT - 1, HEIGHT - 1)

Singleton(item) ==
    /\ root = NoNode
    /\ CountMarked(<<item>>) <= MaxMarked
    /\ root' = singleton(HEIGHT, item)
    /\ items' = <<item>>
    /\ result' = [op |-> "singleton"]
    /\ UNCHANGED <<focusHEIGHT, completeHEIGHT, evaluated>>

Insert(item, retain) ==
    /\ root # NoNode
    /\ LET r == insert(HEIGHT, root, item, retain)
       IN  IF r.tag = "Ok"
           THEN /\ CountErr(HEIGHT, r.val) <= MaxPruned
                /\ CountMarked(Append(items, item)) <= MaxMarked
                /\ root' = r.val
                /\ items' = Append(items, item)
                /\ result' = [op |-> "insert", tag |-> "Ok"]
           ELSE /\ CountErrEntry(HEIGHT, r.carry) <= MaxPruned
                /\ root' = NoNode
                /\ items' = items
                /\ result' = [op |-> "insert", tag |-> "Err",
                              item |-> r.item, carry |-> r.carry]
    /\ UNCHANGED <<focusHEIGHT, completeHEIGHT, evaluated>>

Hash ==
    /\ root # NoNode
    /\ result' = [op |-> "hash", value |-> hash(HEIGHT, root)]
    /\ root' = hashed(HEIGHT, root)
    /\ UNCHANGED <<items, focusHEIGHT, completeHEIGHT, evaluated>>

\* history: the items after alter(f)
ItemsAltered(f, some) ==
    IF some THEN [items EXCEPT ![Len(items)] = Mutate(f, @)] ELSE items

Alter(f, some) ==
    /\ root # NoNode
    /\ CountMarked(ItemsAltered(f, some)) <= MaxMarked
    \* cached: history, the cache as it stood when alter was called
    /\ result' = [op |-> "alter", value |-> alter(HEIGHT, root, f, some), cached |-> root.hash]
    /\ root' = altered(HEIGHT, root, f, some)
    /\ items' = ItemsAltered(f, some)
    /\ UNCHANGED <<focusHEIGHT, completeHEIGHT, evaluated>>

Complete(retain) ==
    /\ root # NoNode
    /\ LET r == complete(HEIGHT, root, retain)
       IN  /\ CountErrEntry(HEIGHT, r) <= MaxPruned
           /\ result' = [op |-> "complete", value |-> r]
    /\ root' = NoNode
    /\ UNCHANGED <<items, focusHEIGHT, completeHEIGHT, evaluated>>

Next ==
    \/ \E item \in ItemsAt(1) : Singleton(item)
    \/ \E item \in ItemsAt(Len(items) + 1), retain \in Choices : Insert(item, retain)
    \/ Hash
    \/ \E f \in Mutators, some \in BOOLEAN : Alter(f, some)
    \/ \E retain \in Choices : Complete(retain)

Spec == Init /\ [][Next]_vars

-----------------------------------------------------------------------------
(* Composing a node type: Active<Focus>::HEIGHT is evaluated for a focus   *)
(* type and its complete form, whatever heights they report.               *)

InitHeight ==
    /\ root = NoNode
    /\ result = [op |-> "none"]
    /\ items = <<>>
    /\ focusHEIGHT \in 0..MaxTypeHeight
    /\ completeHEIGHT \in 0..MaxTypeHeight
    /\ evaluated = Pending

EvaluateHEIGHT ==
    /\ evaluated = Pending
    /\ evaluated' = Active_HEIGHT(focusHEIGHT, completeHEIGHT)
    /\ UNCHANGED <<root, result, items, focusHEIGHT, completeHEIGHT>>

NextHeight == EvaluateHEIGHT

SpecHeight == InitHeight /\ [][NextHeight]_vars

-----------------------------------------------------------------------------
(* Reference definitions used by the properties below                       *)

RECURSIVE Size(_, _)
\* items held by an active node of height h: a sibling of height h-1 is full
Size(h, self) ==
    IF h = 0 THEN 1
    ELSE Len(self.siblings) * Pow4(h - 1) + Size(h - 1, self.focus)

RECURSIVE RefCompleteHash(_, _)
RECURSIVE RefEntryHash(_, _)
\* hash of a complete node recomputed from its children, reading no cache
RefCompleteHash(h, c) ==
    IF h = 0 THEN ItemHash(c.item)
    ELSE node(h, RefEntryHash(h - 1, c.children[1]), RefEntryHash(h - 1, c.children[2]),
                 RefEntryHash(h - 1, c.children[3]), RefEntryHash(h - 1, c.children[4]))
RefEntryHash(h, e) ==
    IF e.tag = "Ok" THEN RefCompleteHash(h, e.val) ELSE e.val

RECURSIVE RefHash(_, _)
\* hash of an active node recomputed from its siblings and focus, reading no cache
RefHash(h, self) ==
    IF h = 0 THEN ItemHash(self.item)
    ELSE LET k == Len(self.siblings)
             slot(i) == IF i <= k THEN RefEntryHash(h - 1, self.siblings[i])
                        ELSE IF i = k + 1 THEN RefHash(h - 1, self.focus)
                        ELSE padding
         IN  node(h, slot(1), slot(2), slot(3), slot(4))

RECURSIVE Retained(_, _)
\* an entry of height h none of whose subtrees was pruned
Retained(h, e) ==
    /\ e.tag = "Ok"
    /\ h > 0 => \A i \in 1..4 : Retained(h - 1, e.val.children[i])

RECURSIVE Leaves(_, _)
\* the items of a fully retained entry of height h, left to right
Leaves(h, e) ==
    IF h = 0 THEN <<e.val.item>>
    ELSE Leaves(h - 1, e.val.children[1]) \o Leaves(h - 1, e.val.children[2])
      \o Leaves(h - 1, e.val.children[3]) \o Leaves(h - 1, e.val.children[4])

LastItems(n) == SubSeq(items, Len(items) - n + 1, Len(items))

-----------------------------------------------------------------------------
(* Properties                                                               *)

\* C1: starting from singleton and inserting one item after another, insert
\* on the active node of every height h >= 1 returns a new active node while
\* the node holds fewer than 4^h items, and returns (item, carry) exactly
\* when it holds 4^h items, which is exactly when every level from h down
\* has 3 siblings; the node at the top holds the items inserted so far.
C1_CarryExactlyWhenFull ==
    root # NoNode =>
        /\ Size(HEIGHT, root) = Len(items)
        /\ \A h \in Levels, item \in ItemsAt(Len(items) + 1), retain \in Retains :
             LET self == Path(h)
                 r == insert(h, self, item, retain)
                 full == \A l \in 1..h : Len(Path(l).siblings) = 3
             IN  /\ Size(h, self) <= Pow4(h)
                 /\ (r.tag = "Err") <=> (Size(h, self) = Pow4(h))
                 /\ (r.tag = "Err") <=> full
                 /\ (r.tag = "Ok") <=> (Size(h, self) < Pow4(h))
                 /\ r.tag = "Ok" => Size(h, r.val) = Size(h, self) + 1

\* C1 witness: the node of height HEIGHT held 4^HEIGHT items and insert
\* returned the carry
C1_Witness ==
    /\ result.op = "insert"
    /\ result.tag = "Err"
    /\ Len(items) = Pow4(HEIGHT)

\* C2: when insert fails it hands back the item it was given, and the carry
\* is folded from exactly four children: the node's three siblings in their
\* order, then the focus's completed-or-hashed form; with everything
\* retained the carry of a node of height h reads, left to right, the last
\* 4^h items inserted (A, B, C, D for height 1).
C2_CarryFromFourChildren ==
    root # NoNode =>
        \A h \in Levels, item \in ItemsAt(Len(items) + 1), retain \in Retains :
            LET self == Path(h)
                r == insert(h, self, item, retain)
                fr == insert(h - 1, self.focus, item, retain)
                four == self.siblings \o <<fr.carry>>
            IN  r.tag = "Err" =>
                    /\ r.item = item
                    /\ Len(self.siblings) = 3
                    /\ fr.tag = "Err"
                    /\ retain[h] => /\ r.carry.tag = "Ok"
                                    /\ r.carry.val.children = four
                    /\ ~retain[h] => r.carry = Err(node(h, entry_hash(h - 1, four[1]),
                                                           entry_hash(h - 1, four[2]),
                                                           entry_hash(h - 1, four[3]),
                                                           entry_hash(h - 1, four[4])))
                    /\ Retained(h, r.carry) => Leaves(h, r.carry) = LastItems(Pow4(h))

\* C2 witness: insert failed at the top and returned a fully retained carry
C2_Witness ==
    /\ result.op = "insert"
    /\ result.tag = "Err"
    /\ Retained(HEIGHT, result.carry)
    /\ Leaves(HEIGHT, result.carry) = items

\* C3: whenever insert returns a carry, the carry's hash is the combination,
\* tagged with the node's height (focus height + 1), of the hashes of its
\* four children in order; a cached hash present on the carry path is that
\* same value, and is the hash the retained carry is given.
C3_CarryHashIsCombination ==
    root # NoNode =>
        \A h \in Levels, item \in ItemsAt(Len(items) + 1), retain \in Retains :
            LET self == Path(h)
                r == insert(h, self, item, retain)
                fr == insert(h - 1, self.focus, item, retain)
                four == self.siblings \o <<fr.carry>>
                combined == node(h, RefEntryHash(h - 1, four[1]), RefEntryHash(h - 1, four[2]),
                                    RefEntryHash(h - 1, four[3]), RefEntryHash(h - 1, four[4]))
            IN  r.tag = "Err" =>
                    /\ entry_hash(h, r.carry) = combined
                    /\ self.hash # NoHash => self.hash = combined
                    /\ (self.hash # NoHash /\ r.carry.tag = "Ok") =>
                           r.carry.val.hash = self.hash

\* C3 witness: insert returned a retained carry that was given the cached
\* hash, one of whose children had been given a cached hash the same way
C3_Witness ==
    /\ result.op = "insert"
    /\ result.tag = "Err"
    /\ result.carry.tag = "Ok"
    /\ result.carry.val.hash # NoHash
    /\ \E i \in 1..4 : /\ result.carry.val.children[i].tag = "Ok"
                       /\ result.carry.val.children[i].val.hash # NoHash

\* C4: at every level of the focus path the cached hash is absent or equal
\* to the hash recomputed from the node's current siblings and focus.
C4_CacheAbsentOrCurrent ==
    root # NoNode =>
        \A h \in Levels :
            \/ Path(h).hash = NoHash
            \/ /\ Path(h).hash = RefHash(h, Path(h))
               /\ Path(h).hash = hash_active(h - 1, Path(h).siblings, Path(h).focus)

\* C4 witness: hashes are cached at every level of a node that holds
\* siblings at every level and an altered item in focus
C4_Witness ==
    /\ root # NoNode
    /\ \A h \in Levels : Path(h).hash # NoHash /\ Len(Path(h).siblings) > 0
    /\ items[Len(items)] < 0

\* C5: after an alter, the hash() called next returns the hash of the node's
\* content as mutated; if a hash was cached when alter was called and the
\* mutator changed the item, it is not that cached value.
C5_HashAfterAlterIsFresh ==
    (root # NoNode /\ result.op = "alter") =>
        /\ hash(HEIGHT, root) = RefHash(HEIGHT, root)
        /\ hashed(HEIGHT, root).hash = RefHash(HEIGHT, root)
        /\ (/\ result.cached # NoHash
            /\ result.value.tag = "Some"
            /\ result.value.val # items[Len(items)]) =>
               hash(HEIGHT, root) # result.cached

\* C5 witness: alter changed the item of a node whose hash was cached
C5_Witness ==
    /\ root # NoNode
    /\ result.op = "alter"
    /\ result.cached # NoHash
    /\ result.value.tag = "Some"
    /\ result.value.val # items[Len(items)]

\* C6: the hash of a node with k siblings is the combination, tagged focus
\* height + 1, of the k sibling hashes in buffer order, then the focus hash,
\* then padding 3-k times; for singleton(item) that is the focus hash
\* followed by three paddings.
C6_HashLayout ==
    /\ \A item \in ItemsAt(1) :
         hash(HEIGHT, singleton(HEIGHT, item)) =
             node(HEIGHT, focus_hash(HEIGHT - 1, singleton(HEIGHT - 1, item)),
                  padding, padding, padding)
    /\ root # NoNode =>
        \A h \in Levels :
            LET self == Path(h)
                k == Len(self.siblings)
                slots == [i \in 1..k |-> entry_hash(h - 1, self.siblings[i])]
                         \o <<focus_hash(h - 1, self.focus)>>
                         \o [i \in 1..(3 - k) |-> padding]
                layout == node((h - 1) + 1, slots[1], slots[2], slots[3], slots[4])
            IN  /\ Len(slots) = 4
                /\ hash_active(h - 1, self.siblings, self.focus) = layout
                /\ hash(h, self) = layout

\* C6 witness: hash() returned for a node with one sibling over a focus
\* with two siblings
C6_Witness ==
    /\ root # NoNode
    /\ result.op = "hash"
    /\ Len(root.siblings) = 1
    /\ Len(root.focus.siblings) = 2

RECURSIVE RunFrom(_, _, _, _)
RunFrom(self, seq, i, retain) ==
    IF i > Len(seq) THEN self
    ELSE RunFrom(insert(HEIGHT, self, seq[i], retain).val, seq, i + 1, retain)

\* a run of its own: singleton then inserts of the items of seq, the frozen
\* layer choosing retain[l] throughout
Run(seq, retain) == RunFrom(singleton(HEIGHT, seq[1]), seq, 2, retain)

AllRetained == [l \in 0..HEIGHT |-> TRUE]
AllPruned == [l \in 0..HEIGHT |-> FALSE]

\* C7: after every step, hash() of the node agrees with hash() of another
\* run over the same items in which the frozen layer retains everything, and
\* of one in which it prunes everything: the hash does not depend on the
\* retain-or-prune choices.
C7_HashIndependentOfPruning ==
    root # NoNode =>
        /\ hash(HEIGHT, root) = hash(HEIGHT, Run(items, AllRetained))
        /\ hash(HEIGHT, root) = hash(HEIGHT, Run(items, AllPruned))

\* C7 witness: hash() returned for a node holding both a pruned and a
\* retained sibling
C7_Witness ==
    /\ root # NoNode
    /\ result.op = "hash"
    /\ Len(items) > 8
    /\ \E h \in Levels : \E i \in 1..Len(Path(h).siblings) : Path(h).siblings[i].tag = "Err"
    /\ \E i \in 1..Len(root.siblings) : root.siblings[i].tag = "Ok"
    /\ result.value = hash(HEIGHT, Run(items, AllPruned))

\* C8: replacing a retained sibling Ok(complete) by Err(complete.hash())
\* leaves hash_active of the node unchanged, at every level and position.
C8_PruneInvariance ==
    root # NoNode =>
        \A h \in Levels :
            \A i \in 1..Len(Path(h).siblings) :
                LET self == Path(h)
                    e == self.siblings[i]
                IN  e.tag = "Ok" =>
                        hash_active(h - 1,
                                    [self.siblings EXCEPT ![i] = Err(complete_hash(h - 1, e.val))],
                                    self.focus)
                          = hash_active(h - 1, self.siblings, self.focus)

\* C8 witness: a node with retained siblings at both levels, one of them
\* carrying a hash it was given by insert
C8_Witness ==
    /\ root # NoNode
    /\ \E i \in 1..Len(root.siblings) : /\ root.siblings[i].tag = "Ok"
                                        /\ root.siblings[i].val.hash # NoHash
    /\ \E i \in 1..Len(root.focus.siblings) : root.focus.siblings[i].tag = "Ok"

\* C9: evaluating the height of Active<Focus> yields the focus's height plus
\* one when the focus and its complete form report the same height, and
\* aborts, yielding no height, when they differ.
C9_HeightOrAbort ==
    evaluated # Pending =>
        IF focusHEIGHT = completeHEIGHT
        THEN evaluated = Value(focusHEIGHT + 1)
        ELSE evaluated = Panic

\* C9 witness: a mismatched composition was evaluated
C9_Witness ==
    /\ evaluated # Pending
    /\ focusHEIGHT # completeHEIGHT

\* C10: complete() yields a frozen node only if the node has 3 siblings and
\* a focus whose own complete() gave a completed form, and that node has
\* exactly those four children; otherwise it yields the combined hash of
\* the node.
C10_CompleteOnlyWhenFull ==
    root # NoNode =>
        \A h \in Levels, retain \in Retains :
            LET self == Path(h)
                c == complete(h, self, retain)
                fc == complete(h - 1, self.focus, retain)
            IN  /\ c.tag = "Ok" => /\ Len(self.siblings) = 3
                                   /\ fc.tag = "Ok"
                                   /\ c.val.children = self.siblings \o <<fc>>
                /\ c.tag = "Err" => c.val = RefHash(h, self)

\* C10 witness: complete() was called on a node with 3 siblings and a
\* completed focus at every level, and returned a frozen node
C10_Witness ==
    /\ result.op = "complete"
    /\ result.value.tag = "Ok"
    /\ Len(items) = Pow4(HEIGHT)

\* complete() was called on a node with fewer than 3 siblings and returned
\* a hash
C10_HashReached ==
    /\ result.op = "complete"
    /\ result.value.tag = "Err"
    /\ Len(items) < Pow4(HEIGHT) - 4

-----------------------------------------------------------------------------
(* Further reference definitions                                            *)

RECURSIVE Descend(_, _, _)
\* the node of height h on the focus path of self, an active node of height from
Descend(self, from, h) ==
    IF from = h THEN self ELSE Descend(self.focus, from - 1, h)

RECURSIVE SiblingsRetained(_, _)
SiblingsRetained(h, es) ==
    es = <<>> \/ (Retained(h, Head(es)) /\ SiblingsRetained(h, Tail(es)))

RECURSIVE ActiveRetained(_, _)
\* an active node of height h none of whose completed subtrees was pruned
ActiveRetained(h, self) ==
    h = 0 \/ (SiblingsRetained(h - 1, self.siblings) /\ ActiveRetained(h - 1, self.focus))

RECURSIVE SiblingLeaves(_, _)
SiblingLeaves(h, es) ==
    IF es = <<>> THEN <<>> ELSE Leaves(h, Head(es)) \o SiblingLeaves(h, Tail(es))

RECURSIVE ActiveLeaves(_, _)
\* the items of a fully retained active node of height h, left to right: each
\* level's siblings in buffer order, then its focus
ActiveLeaves(h, self) ==
    IF h = 0 THEN <<self.item>>
    ELSE SiblingLeaves(h - 1, self.siblings) \o ActiveLeaves(h - 1, self.focus)

RECURSIVE Uncached(_, _)
\* an active node of height h with the caches of its focus path cleared
Uncached(h, self) ==
    IF h = 0 THEN self
    ELSE [self EXCEPT !.focus = Uncached(h - 1, self.focus), !.hash = NoHash]

\* C11: after singleton and successful inserts with every completed subtree
\* retained, the leaves of the node read left to right (siblings in buffer
\* order, then the focus, recursively) are exactly the items inserted, in
\* insertion order.
C11_LeavesInInsertionOrder ==
    (root # NoNode /\ ActiveRetained(HEIGHT, root)) =>
        /\ ActiveLeaves(HEIGHT, root) = items
        /\ \A item \in ItemsAt(Len(items) + 1) :
             LET r == insert(HEIGHT, root, item, AllRetained)
             IN  r.tag = "Ok" => ActiveLeaves(HEIGHT, r.val) = Append(items, item)

\* C11 witness: after 4^HEIGHT - 1 successful inserts everything is retained
\* and an item was altered on the way
C11_Witness ==
    /\ root # NoNode
    /\ result.op = "insert"
    /\ Len(items) = Pow4(HEIGHT)
    /\ ActiveRetained(HEIGHT, root)
    /\ \E i \in 1..Len(items) : items[i] < 0
    /\ ActiveLeaves(HEIGHT, root) = items

RECURSIVE WellFormed(_, _)
\* a completed entry of height h: every retained node below has 4 children
WellFormed(h, e) ==
    (e.tag = "Ok" /\ h > 0) =>
        /\ Len(e.val.children) = 4
        /\ \A i \in 1..4 : WellFormed(h - 1, e.val.children[i])

\* every active node on the focus path has at most 3 siblings, each well
\* formed, and one focus
AtMostFour(self) ==
    \A h \in Levels :
        LET n == Descend(self, HEIGHT, h)
        IN  /\ DOMAIN n = {"focus", "siblings", "hash"}
            /\ Len(n.siblings) \in 0..3
            /\ \A i \in 1..Len(n.siblings) : WellFormed(h - 1, n.siblings[i])

\* C12: every active node at every level has between 0 and 3 siblings and
\* exactly one focus, in every state and in the result of every insert and
\* alter; four completed children appear together only in a carry.
C12_AtMostFourChildren ==
    root # NoNode =>
        /\ AtMostFour(root)
        /\ \A item \in ItemsAt(Len(items) + 1), retain \in Retains :
             LET r == insert(HEIGHT, root, item, retain)
             IN  IF r.tag = "Ok"
                 THEN AtMostFour(r.val)
                 ELSE /\ WellFormed(HEIGHT, r.carry)
                      /\ r.carry.tag = "Ok" => Len(r.carry.val.children) = 4
        /\ \A f \in Mutators, some \in BOOLEAN : AtMostFour(altered(HEIGHT, root, f, some))

\* C12 witness: an insert returned a node with 3 siblings at every level
C12_Witness ==
    /\ root # NoNode
    /\ result.op = "insert"
    /\ \A h \in Levels : Len(Path(h).siblings) = 3

\* the lowest level whose sibling buffer has room
LowestWithRoom ==
    CHOOSE j \in Levels : /\ Len(Path(j).siblings) < 3
                          /\ \A l \in 1..(j - 1) : Len(Path(l).siblings) = 3

\* C13: after singleton and k successful inserts the number of siblings at
\* level j is the j-th base-4 digit of k; a successful insert adds one
\* sibling at the lowest level with fewer than 3, empties the sibling buffer
\* of every level below it and leaves every level above it unchanged.
C13_BaseFourCounter ==
    root # NoNode =>
        /\ \A j \in Levels :
             Len(Path(j).siblings) = ((Len(items) - 1) \div Pow4(j - 1)) % 4
        /\ \A item \in ItemsAt(Len(items) + 1), retain \in Retains :
             LET r == insert(HEIGHT, root, item, retain)
             IN  r.tag = "Ok" =>
                     \A l \in Levels :
                         LET after == Descend(r.val, HEIGHT, l).siblings
                             before == Path(l).siblings
                         IN  /\ l < LowestWithRoom => after = <<>>
                             /\ l = LowestWithRoom => /\ Len(after) = Len(before) + 1
                                                      /\ SubSeq(after, 1, Len(before)) = before
                             /\ l > LowestWithRoom => after = before

\* C13 witness: 11 successful inserts, 11 = 2*4 + 3, the last of them an insert
C13_Witness ==
    /\ root # NoNode
    /\ result.op = "insert"
    /\ Len(items) - 1 = 11
    /\ Len(Path(1).siblings) = 3
    /\ Len(Path(2).siblings) = 2

\* C14: when the focus's insert succeeds, insert returns a node with the
\* same sibling buffer, the focus replaced by the focus's result.
C14_SiblingsUntouched ==
    root # NoNode =>
        \A h \in Levels, item \in ItemsAt(Len(items) + 1), retain \in Retains :
            LET self == Path(h)
                r == insert(h, self, item, retain)
                fr == insert(h - 1, self.focus, item, retain)
            IN  fr.tag = "Ok" =>
                    /\ r.tag = "Ok"
                    /\ r.val.siblings = self.siblings
                    /\ r.val.focus = fr.val

\* C14 witness: an insert was absorbed by the focus of a node that has
\* siblings
C14_Witness ==
    /\ root # NoNode
    /\ result.op = "insert"
    /\ Len(root.siblings) = 2
    /\ Len(root.focus.siblings) = 1

\* C15: when the focus's insert fails and the buffer holds k < 3 entries,
\* insert returns a node with k+1 siblings, the k it had, unchanged, then
\* the focus's completed-or-hashed form, a focus Focus::singleton(item) and
\* no cached hash.
C15_FoldIntoSiblings ==
    root # NoNode =>
        \A h \in Levels, item \in ItemsAt(Len(items) + 1), retain \in Retains :
            LET self == Path(h)
                k == Len(self.siblings)
                r == insert(h, self, item, retain)
                fr == insert(h - 1, self.focus, item, retain)
            IN  (fr.tag = "Err" /\ k < 3) =>
                    /\ r.tag = "Ok"
                    /\ Len(r.val.siblings) = k + 1
                    /\ SubSeq(r.val.siblings, 1, k) = self.siblings
                    /\ r.val.siblings[k + 1] = fr.carry
                    /\ r.val.focus = singleton(h - 1, item)
                    /\ r.val.hash = NoHash

\* C15 witness: an insert folded a full focus of height 1 into the second
\* place of the top node's siblings
C15_Witness ==
    /\ root # NoNode
    /\ result.op = "insert"
    /\ Len(root.siblings) = 2
    /\ root.focus = singleton(HEIGHT - 1, items[Len(items)])

\* C16: right after any alter, whatever the mutator and whether it returned
\* a value or None, the cached hash is absent at every level of the focus
\* path.
C16_AlterClearsCaches ==
    root # NoNode =>
        /\ result.op = "alter" => \A h \in Levels : Path(h).hash = NoHash
        /\ \A f \in Mutators, some \in BOOLEAN, h \in Levels :
             Descend(altered(HEIGHT, root, f, some), HEIGHT, h).hash = NoHash

\* C16 witness: alter returned None on a node whose hash was cached
C16_Witness ==
    /\ root # NoNode
    /\ result.op = "alter"
    /\ result.value = None
    /\ result.cached # NoHash

\* C17: alter hands the mutator the item reached through the focus at every
\* level, the one inserted last, and nothing else: the sibling buffers at
\* every level are the same after as before, and alter returns the
\* mutator's return value.
C17_AlterOnlyFocusItem ==
    root # NoNode =>
        /\ Descend(root, HEIGHT, 0).item = items[Len(items)]
        /\ \A f \in Mutators, some \in BOOLEAN :
             LET after == altered(HEIGHT, root, f, some)
                 last == items[Len(items)]
             IN  /\ \A h \in Levels :
                       Descend(after, HEIGHT, h).siblings = Path(h).siblings
                 /\ Descend(after, HEIGHT, 0).item = IF some THEN Mutate(f, last) ELSE last
                 /\ alter(HEIGHT, root, f, some) =
                        IF some THEN Some(MutatorResult(f, last)) ELSE None
                 /\ ~some => Uncached(HEIGHT, after) = Uncached(HEIGHT, root)

\* C17 witness: alter marked the focus item of a node with retained siblings
\* at both levels
C17_Witness ==
    /\ root # NoNode
    /\ result.op = "alter"
    /\ result.value.tag = "Some"
    /\ result.value.val > 0
    /\ items[Len(items)] < 0
    /\ \A h \in Levels : /\ Len(Path(h).siblings) > 0
                         /\ Path(h).siblings[1].tag = "Ok"

\* C18: hash() changes only hash caches: siblings and focus contents are
\* the same at every level; a second hash() returns the same value and
\* leaves the whole node, caches included, as the first left it.
C18_HashOnlyCaches ==
    root # NoNode =>
        LET once == hashed(HEIGHT, root)
            twice == hashed(HEIGHT, once)
        IN  /\ Uncached(HEIGHT, once) = Uncached(HEIGHT, root)
            /\ \A h \in Levels :
                  Descend(once, HEIGHT, h).siblings = Path(h).siblings
            /\ hash(HEIGHT, once) = hash(HEIGHT, root)
            /\ hash(HEIGHT, twice) = hash(HEIGHT, root)
            /\ twice = once

\* C18 witness: hash() was called on a node with siblings at both levels,
\* and returned what the node now holds cached
C18_Witness ==
    /\ root # NoNode
    /\ result.op = "hash"
    /\ result.value = root.hash
    /\ Len(root.siblings) = 3
    /\ Len(root.focus.siblings) = 3

\* C19: hash() of an active node equals the hash of what complete() turns
\* it into and of the carry a failing insert returns, frozen node or bare
\* hash; and a full focus counts in its parent's hash the same before it
\* is folded into the sibling buffer as the sibling does after.
C19_ActiveAndCompleteAgree ==
    root # NoNode =>
        \A h \in Levels, item \in ItemsAt(Len(items) + 1), retain \in Retains :
            LET self == Path(h)
                r == insert(h, self, item, retain)
                fr == insert(h - 1, self.focus, item, retain)
            IN  /\ entry_hash(h, complete(h, self, retain)) = hash(h, self)
                /\ r.tag = "Err" => entry_hash(h, r.carry) = hash(h, self)
                /\ (r.tag = "Ok" /\ fr.tag = "Err") =>
                       entry_hash(h - 1, r.val.siblings[Len(r.val.siblings)])
                         = focus_hash(h - 1, self.focus)

\* C19 witness: a failing insert returned a carry for a node whose hash had
\* been taken, and the carry has that hash
C19_Witness ==
    /\ result.op = "insert"
    /\ result.tag = "Err"
    /\ result.carry.tag = "Ok"
    /\ result.carry.val.hash # NoHash
    /\ entry_hash(HEIGHT, result.carry) = hash(HEIGHT, Run(items, AllPruned))

====
